---- MODULE Spec2Model ----
(***************************************************************************)
(* A model of pixl-toastr's command pipeline:                              *)
(*   - CommandExecutor (src/command_executor.py): shell classification,    *)
(*     one attempt (run_command) and the retry loop (execute_with_retries) *)
(*   - CommandGenerator.clean_json_response (both generators)              *)
(*   - CommandGenerator.replace_placeholder_with_file and                  *)
(*     update_output_filename (src/command_generator.py)                   *)
(*   - CommandGenerator.generate_command of the context-aware generator    *)
(*     (src/app/command_generator.py): message preparation and the call    *)
(*     of the model collaborator                                           *)
(*                                                                         *)
(* Text is a sequence of one-character strings.  The fixed phrases of the  *)
(* executor's messages are kept as single elements ("atoms") of such a     *)
(* sequence, cut so that every non-retryable marker starts and ends on an  *)
(* atom border; `x in text` is sub-sequence search.                        *)
(***************************************************************************)
EXTENDS Integers, Sequences, FiniteSets, TLC

VARIABLES
    \* CommandExecutor and one execute_with_retries call
    max_retries,        \* self.max_retries
    platform_system,    \* the environment: platform.system()
    exe,                \* the environment: what the search path holds for the first token
    command,            \* the argument of execute_with_retries
    pc,                 \* position of the call
    attempt,            \* local attempt
    last_error_output,  \* local last_error_output
    result,             \* what the call returned: <<success, output>>
    events,             \* observable steps of the call so far (attempts, sleeps)
    \* clean_json_response
    generator,          \* which CommandGenerator the caller uses
    response_str,       \* the raw response handed to clean_json_response
    cleaned,            \* results of successive clean_json_response calls
    \* replace_placeholder_with_file / update_output_filename
    gen_command, actual_file, desired_ext, IMAGE_EXTENSIONS, gen_out,
    \* generate_command of the context-aware generator
    system_prompt_template, \* self.system_prompt_template, as parsed by str.format
    system_context,         \* the argument system_context
    conversation_history,   \* the caller's list conversation_history
    app_pc,                 \* position of the generate_command call
    messages,               \* local messages of generate_command
    request,                \* the messages handed to the model collaborator
    network_calls,          \* calls of openai.chat.completions.create so far
    raw_llm_response        \* what generate_command returned or raised

execVars == <<max_retries, platform_system, exe, command, pc, attempt, last_error_output, result, events>>
cleanVars == <<generator, response_str, cleaned>>
genVars == <<gen_command, actual_file, desired_ext, IMAGE_EXTENSIONS, gen_out>>
appVars == <<system_prompt_template, system_context, conversation_history, app_pc,
             messages, request, network_calls, raw_llm_response>>
vars == <<execVars, cleanVars, genVars, appVars>>

----------------------------------------------------------------------------
(* Bounds *)

MaxCmdLen == 2          \* longest command string handed to the executor
MaxRetriesBound == 3    \* largest configured max_retries

----------------------------------------------------------------------------
(* Python str primitives *)

Whitespace == {" ", "\t", "\n", "\r"}

LowerLetters == <<"a","b","c","d","e","f","g","h","i","j","k","l","m",
                  "n","o","p","q","r","s","t","u","v","w","x","y","z">>
UpperLetters == <<"A","B","C","D","E","F","G","H","I","J","K","L","M",
                  "N","O","P","Q","R","S","T","U","V","W","X","Y","Z">>
Digits == {"0","1","2","3","4","5","6","7","8","9"}
Letters == {LowerLetters[i] : i \in 1..26} \cup {UpperLetters[i] : i \in 1..26}

\* str.lower on one character
LowerChar(c) ==
    IF \E i \in 1..26 : UpperLetters[i] = c
    THEN LowerLetters[CHOOSE i \in 1..26 : UpperLetters[i] = c]
    ELSE c

\* str.lower
Lower(s) == [i \in 1..Len(s) |-> LowerChar(s[i])]

\* str.strip()
Strip(s) ==
    LET keep == {i \in 1..Len(s) : s[i] \notin Whitespace}
    IN  IF keep = {} THEN <<>>
        ELSE SubSeq(s, CHOOSE i \in keep : \A j \in keep : i <= j,
                       CHOOSE i \in keep : \A j \in keep : i >= j)

\* str.startswith(p)
StartsWith(s, p) == Len(p) <= Len(s) /\ SubSeq(s, 1, Len(p)) = p

\* str.endswith(p)
EndsWith(s, p) == Len(p) <= Len(s) /\ SubSeq(s, Len(s) - Len(p) + 1, Len(s)) = p

\* `sub in s`
Contains(s, sub) ==
    \E i \in 0..(Len(s) - Len(sub)) : SubSeq(s, i + 1, i + Len(sub)) = sub

\* positions of character c in s
Positions(s, c) == {i \in 1..Len(s) : s[i] = c}
Min(S) == CHOOSE x \in S : \A y \in S : x <= y
Max(S) == CHOOSE x \in S : \A y \in S : x >= y

\* s.split(c)[-1], for a one-character separator
LastPart(s, c) ==
    IF Positions(s, c) = {} THEN s
    ELSE SubSeq(s, Max(Positions(s, c)) + 1, Len(s))

\* s.split(c)[1], for a one-character separator occurring at least twice
SecondPart(s, c) ==
    LET p1 == Min(Positions(s, c))
        p2 == Min(Positions(s, c) \ {p1})
    IN  SubSeq(s, p1 + 1, p2 - 1)

\* s.split(): the maximal runs of non-whitespace, in order
RECURSIVE SplitWs(_)
SplitWs(s) ==
    LET starts == {i \in 1..Len(s) : s[i] \notin Whitespace}
    IN  IF starts = {} THEN <<>>
        ELSE LET b == Min(starts)
                 stops == {i \in b..Len(s) : s[i] \in Whitespace}
                 e == IF stops = {} THEN Len(s) ELSE Min(stops) - 1
             IN  <<SubSeq(s, b, e)>> \o SplitWs(SubSeq(s, e + 1, Len(s)))

\* str.isalnum()
IsAlnum(s) == Len(s) > 0 /\ \A i \in 1..Len(s) : s[i] \in Letters \cup Digits

\* "sep".join(parts)
RECURSIVE Join(_, _)
Join(sep, parts) ==
    IF Len(parts) = 0 THEN <<>>
    ELSE IF Len(parts) = 1 THEN parts[1]
    ELSE parts[1] \o sep \o Join(sep, Tail(parts))

----------------------------------------------------------------------------
(* shlex.split: POSIX mode, whitespace_split, no comment characters *)

ShlexWhitespace == {" ", "\t", "\r", "\n"}
ShlexQuotes == {"'", "\""}
ShlexEscape == {"\\"}
ShlexEscapedQuotes == {"\""}

\* The lexer as shlex.read_token keeps it: state is " " (between tokens),
\* "a" (in a word), a quote character or the escape character
ShlexStart ==
    [state |-> " ", escapedstate |-> " ", token |-> <<>>, quoted |-> FALSE, out |-> <<>>]

\* One pass of the lexer's loop, over the character c
ShlexStep(l, c) ==
    IF l.state = " " THEN
        IF c \in ShlexWhitespace THEN
            [l EXCEPT !.escapedstate = " ", !.token = <<>>, !.quoted = FALSE]
        ELSE IF c \in ShlexEscape THEN [l EXCEPT !.state = c, !.escapedstate = "a"]
        ELSE IF c \in ShlexQuotes THEN [l EXCEPT !.state = c]
        ELSE [l EXCEPT !.state = "a", !.token = <<c>>]
    ELSE IF l.state \in ShlexQuotes THEN
        IF c = l.state THEN [l EXCEPT !.state = "a", !.quoted = TRUE]
        ELSE IF c \in ShlexEscape /\ l.state \in ShlexEscapedQuotes THEN
            [l EXCEPT !.state = c, !.escapedstate = l.state, !.quoted = TRUE]
        ELSE [l EXCEPT !.token = Append(l.token, c), !.quoted = TRUE]
    ELSE IF l.state \in ShlexEscape THEN
        LET kept == IF l.escapedstate \in ShlexQuotes /\ c # l.state /\ c # l.escapedstate
                    THEN Append(l.token, l.state) ELSE l.token
        IN  [l EXCEPT !.state = l.escapedstate, !.token = Append(kept, c)]
    ELSE \* l.state = "a"
        IF c \in ShlexWhitespace THEN
            IF l.token # <<>> \/ l.quoted
            THEN [l EXCEPT !.state = " ", !.escapedstate = " ", !.token = <<>>,
                           !.quoted = FALSE, !.out = Append(l.out, l.token)]
            ELSE [l EXCEPT !.state = " "]
        ELSE IF c \in ShlexQuotes THEN [l EXCEPT !.state = c]
        ELSE IF c \in ShlexEscape THEN [l EXCEPT !.state = c, !.escapedstate = "a"]
        ELSE [l EXCEPT !.token = Append(l.token, c)]

\* The lexer's loop over s[lo..hi], left to right from the lexer l.  The range
\* is halved, and the left half read before the right one is entered, so that
\* the evaluation nests no deeper than the logarithm of the length.
RECURSIVE ShlexRead(_, _, _, _)
ShlexRead(s, lo, hi, l) ==
    IF lo > hi THEN l
    ELSE IF lo = hi THEN ShlexStep(l, s[lo])
    ELSE LET mid == (lo + hi) \div 2
             left == ShlexRead(s, lo, mid, l)
         IN  IF DOMAIN left = DOMAIN ShlexStart
             THEN ShlexRead(s, mid + 1, hi, left)
             ELSE left

\* The end of the input: the last token, or the ValueError
ShlexEnd(l) ==
    IF l.state = " " THEN [err |-> <<>>, tokens |-> l.out]
    ELSE IF l.state = "a" THEN
        [err |-> <<>>,
         tokens |-> IF l.token # <<>> \/ l.quoted THEN Append(l.out, l.token) ELSE l.out]
    ELSE IF l.state \in ShlexQuotes THEN
        [err |-> <<"No closing quotation">>, tokens |-> <<>>]
    ELSE [err |-> <<"No escaped character">>, tokens |-> <<>>]

\* shlex.split(s): err is the ValueError's text, empty when none was raised
ShlexSplit(s) == ShlexEnd(ShlexRead(s, 1, Len(s), ShlexStart))

----------------------------------------------------------------------------
(* CommandExecutor._looks_like_shell_script *)

ShellKeywords == {<<"f","o","r"," ">>, <<"w","h","i","l","e"," ">>,
                  <<"i","f"," ">>, <<"c","a","s","e"," ">>}
\* The grave accent cannot be written in a TLA+ string; this element stands for it.
GraveAccent == "GRAVE"
ShellOperators == {<<";">>, <<"&","&">>, <<"|","|">>, <<"|">>, <<">">>, <<"<">>,
                   <<GraveAccent>>}

\* line 28's second operand: command.split('$')[-1].split()[0].isalnum().
\* [0] of an empty list raises IndexError.
DollarTail(cmd) == SplitWs(LastPart(cmd, "$"))

\* exc is the exception that leaves the function ("" when it returns), value
\* what it returns.
LooksLikeShellScript(cmd, system) ==
    LET command_lower == Strip(Lower(cmd))
        ret(v) == [exc |-> "", value |-> v]
    IN  IF \E k \in ShellKeywords : StartsWith(command_lower, k) THEN ret(TRUE)
        ELSE IF \E op \in ShellOperators : Contains(cmd, op) THEN ret(TRUE)
        ELSE IF Contains(cmd, <<"$">>) /\ ~Contains(cmd, <<"{">>) /\ DollarTail(cmd) = <<>>
             THEN [exc |-> "IndexError", value |-> FALSE]
        ELSE IF Contains(cmd, <<"$">>)
                /\ (Contains(cmd, <<"{">>) \/ IsAlnum(DollarTail(cmd)[1]))
             THEN ret(TRUE)
        ELSE IF Contains(cmd, <<"%">>) /\ system = "Windows"
                /\ Cardinality(Positions(cmd, "%")) >= 2
                /\ IsAlnum(SecondPart(cmd, "%"))
             THEN ret(TRUE)
        ELSE ret(FALSE)

----------------------------------------------------------------------------
(* CommandExecutor.run_command *)

\* What the search path holds for a plain-vector command's first token:
\*   "present"  an executable file: shutil.which finds it, the process starts
\*   "missing"  no file of that name: which finds nothing, exec fails ENOENT
\*   "noperm"   a file or directory that cannot be executed: which finds
\*              nothing, exec fails EACCES
ExeStates == {"present", "missing", "noperm"}

\* The empty token names the search path's directories themselves.
Lookup(tok, e) == IF tok = <<>> THEN "noperm" ELSE e

\* shutil.which(tok) is not None
Which(tok, e) == Lookup(tok, e) = "present"

\* What a finished process can have done: exit status, stdout, stderr
ExitResults ==
    {<<0, <<"frame=1", "\n">>, <<>>>>,
     <<0, <<>>, <<"Connection ", "timed out", "; retried", "\n">>>>,
     <<1, <<>>, <<"Conversion failed!", "\n">>>>,
     <<1, <<"frame=1", "\n">>, <<"Conversion failed!", "\n">>>>,
     <<1, <<>>, <<"zsh: ", "no matches found", ": *.mp4", "\n">>>>,
     <<1, <<>>, <<"Connection ", "timed out", "\n">>>>}
\* A POSIX shell's diagnostic for a command it cannot find (exit status 127)
ShellNotFoundTexts == {<<"/bin/sh: 1: command ", "not found", "\n">>}
CommandNotFoundCode == 127

Exited(rc, out, err) == [kind |-> "exit", returncode |-> rc, stdout |-> out, stderr |-> err]
Raised(k) == [kind |-> k, returncode |-> -1, stdout |-> <<>>, stderr |-> <<>>]

\* What subprocess.run(command_to_run, shell=use_shell, timeout=300) can do.
\*  - argument vector: exec of a missing file raises FileNotFoundError, of a
\*    file that cannot be executed PermissionError; a started process exits
\*    or is killed at the timeout
\*  - shell line: the shell starts (or, itself missing, FileNotFoundError);
\*    a line naming only a missing executable exits 127 with the shell's
\*    diagnostic
ProcOutcomes(use_shell, tok, e) ==
    LET exits == {Exited(x[1], x[2], x[3]) : x \in ExitResults}
    IN  IF use_shell THEN
            IF e = "missing"
            THEN {Exited(CommandNotFoundCode, <<>>, x) : x \in ShellNotFoundTexts}
                 \cup {Raised("TimeoutExpired"), Raised("FileNotFoundError")}
            ELSE exits \cup {Raised("TimeoutExpired"), Raised("FileNotFoundError")}
        ELSE IF Lookup(tok, e) = "missing" THEN {Raised("FileNotFoundError")}
        ELSE IF Lookup(tok, e) = "noperm" THEN {Raised("PermissionError")}
        ELSE exits \cup {Raised("TimeoutExpired"), Raised("FileNotFoundError")}

TimeoutSeconds == 300

\* lines 82-88
CombinedOutput(proc) ==
    Strip((IF proc.stdout # <<>>
           THEN <<"Stdout:", "\n">> \o Strip(proc.stdout) \o <<"\n">> ELSE <<>>)
          \o (IF proc.stderr # <<>>
              THEN <<"Stderr:", "\n">> \o Strip(proc.stderr) ELSE <<>>))

\* line 63
ErrorPrefix(tok) ==
    <<"Error: Command ", "executable", " ", "'">> \o tok
        \o <<"'", " ", "not found", " in PATH.">>

\* str(e) of the OSError that exec raised
OSErrorText(kind, first) ==
    (IF kind = "FileNotFoundError"
     THEN <<"[Errno 2] No such file or directory: ", "'">>
     ELSE <<"[Errno 13] Permission denied: ", "'">>) \o first \o <<"'">>

\* lines 103-122: the except clauses
HandleException(kind, cmd, first, detail) ==
    IF kind = "FileNotFoundError" THEN
        <<"Error: ", "FileNotFoundError",
          " during command execution. Command or shell not found? Details: ">>
            \o OSErrorText(kind, first)
    ELSE IF kind = "ValueError" THEN
        <<"Error splitting command string", " (check quoting): ">> \o detail
            \o <<"\n", "Command: ">> \o cmd
    ELSE IF kind = "TimeoutExpired" THEN
        <<"Error: Command ", "timed out", " after ", ToString(TimeoutSeconds),
          " seconds.", "\n", "Command: ">> \o cmd
    ELSE <<"Subprocess execution error: ">> \o OSErrorText(kind, first)

\* a bug: the exit status is never looked at (check=False, and no manual check)
RunSucceededUnchecked(proc) == proc.kind = "exit"

\* lines 91-101
RunSucceeded(proc) == proc.returncode = 0

Completed(proc, error_prefix) ==
    IF RunSucceeded(proc) THEN
        [exc |-> "", success |-> TRUE, output |-> CombinedOutput(proc), started |-> TRUE]
    ELSE
        LET msg == <<"Command failed with exit code ", ToString(proc.returncode), ".">>
            error_message == IF error_prefix # <<>> THEN error_prefix \o <<"\n">> \o msg
                             ELSE msg
        IN  [exc |-> "", success |-> FALSE,
             output |-> error_message \o <<"\n">> \o CombinedOutput(proc), started |-> TRUE]

Failed(text, didStart) == [exc |-> "", success |-> FALSE, output |-> text, started |-> didStart]

\* lines 46-69: run_command up to the call of subprocess.run.
\*   exc      an exception that leaves run_command here ("" when none)
\*   early    a result returned before subprocess.run (<<>> when none)
\*   reaches  whether subprocess.run is called, with use_shell and, for an
\*            argument vector, its first token and the error prefix
Prepare(cmd, system, e) ==
    LET cls == LooksLikeShellScript(cmd, system)
        none == [exc |-> "", early |-> <<>>, reaches |-> FALSE, use_shell |-> FALSE,
                 first |-> <<>>, error_prefix |-> <<>>]
    IN  IF cls.exc # "" THEN [none EXCEPT !.exc = cls.exc]
        ELSE IF cls.value THEN [none EXCEPT !.reaches = TRUE, !.use_shell = TRUE]
        ELSE LET sp == ShlexSplit(cmd)
             IN  IF sp.err # <<>>
                 THEN [none EXCEPT !.early = HandleException("ValueError", cmd, <<>>, sp.err)]
                 ELSE IF sp.tokens = <<>>
                 THEN [none EXCEPT !.early = <<"Empty command after shlex.split">>]
                 ELSE [none EXCEPT !.reaches = TRUE, !.first = sp.tokens[1],
                                   !.error_prefix = IF Which(sp.tokens[1], e) THEN <<>>
                                                    ELSE ErrorPrefix(sp.tokens[1])]

\* The shell that shell=True starts
ShellPath == <<"/bin/sh">>

\* lines 70-122: run_command from subprocess.run on, which does proc
Finish(cmd, prep, proc) ==
    IF prep.exc # "" THEN
        [exc |-> prep.exc, success |-> FALSE, output |-> <<>>, started |-> FALSE]
    ELSE IF ~prep.reaches THEN Failed(prep.early, FALSE)
    ELSE IF proc.kind = "exit" THEN Completed(proc, prep.error_prefix)
    ELSE Failed(HandleException(proc.kind, cmd,
                                IF prep.use_shell THEN ShellPath ELSE prep.first, <<>>),
                TRUE)

----------------------------------------------------------------------------
(* CommandExecutor.execute_with_retries *)

\* Characters of the commands handed to the executor
CmdAlphabet == {"a", " ", "$", "{", ";", "'"}

RECURSIVE SeqsUpTo(_, _)
SeqsUpTo(S, n) ==
    IF n = 0 THEN {<<>>}
    ELSE LET shorter == SeqsUpTo(S, n - 1)
         IN  shorter \cup {Append(t, c) : t \in {u \in shorter : Len(u) = n - 1}, c \in S}

Commands == SeqsUpTo(CmdAlphabet, MaxCmdLen)

\* a bug: the FileNotFoundError marker is missing from the list
NoRetryErrorsWithoutFileNotFound ==
    {<<"Error splitting command string">>, <<"executable", " ", "not found">>,
     <<"no matches found">>, <<"timed out">>}

\* a bug: the empty command is listed among the errors not worth a retry
NoRetryErrorsWithEmptyCommand ==
    {<<"Error splitting command string">>, <<"executable", " ", "not found">>,
     <<"FileNotFoundError">>, <<"no matches found">>, <<"timed out">>,
     <<"Empty command after shlex.split">>}

\* lines 145-151
NoRetryErrors == {<<"Error splitting command string">>,
                  <<"executable", " ", "not found">>,
                  <<"FileNotFoundError">>,
                  <<"no matches found">>,
                  <<"timed out">>}

\* a bug: all() where any() is meant
IsNoRetryAll(output) == \A err_text \in NoRetryErrors : Contains(output, err_text)

\* line 152
IsNoRetry(output) == \E err_text \in NoRetryErrors : Contains(output, err_text)

\* a bug: the exponent counts attempts from zero
SleepTimeZeroIndexed(n) == 2 ^ (n - 1)

\* line 158
SleepTime(n) == 2 ^ n

\* line 131
NoErrorCaptured == <<"No error output captured.">>

\* The observable steps of a call: run_command's return (with what
\* subprocess.run did, if it was called) and time.sleep
AttemptEvent(n, r, proc) ==
    [kind |-> "attempt", n |-> n, success |-> r.success, output |-> r.output,
     started |-> r.started, proc |-> IF r.started THEN proc ELSE Raised(""), secs |-> 0]
SleepEvent(n, t) ==
    [kind |-> "sleep", n |-> n, success |-> FALSE, output |-> <<>>,
     started |-> FALSE, proc |-> Raised(""), secs |-> t]

NoResult == <<FALSE, <<>>>>

ExecIdle ==
    /\ command = <<>> /\ pc = "Idle" /\ attempt = 0
    /\ last_error_output = NoErrorCaptured /\ result = NoResult /\ events = <<>>

\* lines 129-131: the call starts
Call ==
    /\ pc = "Idle"
    /\ \E cmd \in Commands : command' = cmd
    /\ attempt' = 0
    /\ last_error_output' = NoErrorCaptured
    /\ pc' = "Loop"
    /\ UNCHANGED <<max_retries, platform_system, exe, result, events>>

\* What subprocess.run can do in this attempt; when run_command does not
\* reach it, nothing is chosen
AttemptOutcomes(prep, e) ==
    IF prep.reaches THEN ProcOutcomes(prep.use_shell, prep.first, e)
    ELSE {Raised("")}

\* lines 133-162: one pass of the loop body, up to the sleep
Attempt ==
    /\ pc = "Loop"
    /\ attempt < max_retries
    /\ LET prep == Prepare(command, platform_system, exe) IN
       \E proc \in AttemptOutcomes(prep, exe) :
          LET r == Finish(command, prep, proc)
              n == attempt + 1
          IN  /\ attempt' = n
              /\ IF r.exc # "" THEN
                    /\ pc' = "Raised"
                    /\ UNCHANGED <<last_error_output, result, events>>
                 ELSE
                    /\ events' = Append(events, AttemptEvent(n, r, proc))
                    /\ IF r.success THEN
                          /\ pc' = "Success"
                          /\ result' = <<TRUE, r.output>>
                          /\ UNCHANGED last_error_output
                       ELSE
                          /\ last_error_output' = r.output
                          /\ IF IsNoRetry(r.output) THEN
                                /\ pc' = "NonRetryableFailure"
                                /\ result' = <<FALSE, r.output>>
                             ELSE
                                /\ pc' = IF n < max_retries THEN "RetryableFailure" ELSE "Loop"
                                /\ UNCHANGED result
    /\ UNCHANGED <<max_retries, platform_system, exe, command>>

\* lines 158-160: the backoff sleep
Sleep ==
    /\ pc = "RetryableFailure"
    /\ events' = Append(events, SleepEvent(attempt, SleepTime(attempt)))
    /\ pc' = "Loop"
    /\ UNCHANGED <<max_retries, platform_system, exe, command, attempt,
                   last_error_output, result>>

\* lines 133, 165: the loop condition fails
Exhausted ==
    /\ pc = "Loop"
    /\ ~(attempt < max_retries)
    /\ pc' = "AttemptsExhausted"
    /\ result' = <<FALSE, last_error_output>>
    /\ UNCHANGED <<max_retries, platform_system, exe, command, attempt,
                   last_error_output, events>>

CleanIdle == generator = "" /\ response_str = <<>> /\ cleaned = <<>>
GenIdle ==
    /\ gen_command = <<>> /\ actual_file = <<>> /\ desired_ext = <<>>
    /\ IMAGE_EXTENSIONS = {} /\ gen_out = <<>>
AppIdle ==
    /\ system_prompt_template = <<>> /\ system_context = <<>>
    /\ conversation_history = <<>> /\ app_pc = "Idle" /\ messages = <<>>
    /\ request = <<>> /\ network_calls = 0
    /\ raw_llm_response = [exc |-> "", value |-> <<>>]

\* CommandExecutor(max_retries) constructed, in some environment
ExecInit ==
    /\ max_retries \in 0..MaxRetriesBound
    /\ platform_system = "Linux"
    /\ exe \in ExeStates
    /\ ExecIdle
    /\ CleanIdle /\ GenIdle /\ AppIdle

ExecNext ==
    \/ Call /\ UNCHANGED <<cleanVars, genVars, appVars>>
    \/ Attempt /\ UNCHANGED <<cleanVars, genVars, appVars>>
    \/ Sleep /\ UNCHANGED <<cleanVars, genVars, appVars>>
    \/ Exhausted /\ UNCHANGED <<cleanVars, genVars, appVars>>

ExecSpec == ExecInit /\ [][ExecNext]_vars

----------------------------------------------------------------------------
(* Properties of execute_with_retries *)

\* The phrases the retry policy is documented to treat as non-retryable
MarkerPhrases == {<<"Error splitting command string">>,
                  <<"executable", " ", "not found">>,
                  <<"FileNotFoundError">>,
                  <<"no matches found">>,
                  <<"timed out">>}
HasMarker(text) == \E m \in MarkerPhrases : Contains(text, m)

AttemptIdx == {i \in 1..Len(events) : events[i].kind = "attempt"}
SleepIdx == {i \in 1..Len(events) : events[i].kind = "sleep"}
Returned == pc \in {"Success", "NonRetryableFailure", "AttemptsExhausted"}
Ended == Returned \/ pc = "Raised"
Called == pc # "Idle"

\* the command is classified, reaches subprocess.run as an argument vector,
\* and the search path holds no file for its first token
PlainVectorMissing ==
    LET prep == Prepare(command, platform_system, exe)
    IN  /\ prep.exc = "" /\ prep.reaches /\ ~prep.use_shell
        /\ prep.first # <<>> /\ exe = "missing"

\* the command is classified as a shell line, and the executable it names
\* does not exist
ShellLineMissing ==
    LET prep == Prepare(command, platform_system, exe)
    IN  prep.exc = "" /\ prep.reaches /\ prep.use_shell /\ exe = "missing"

OneFailedAttemptOnly ==
    /\ SleepIdx = {}
    /\ Cardinality(AttemptIdx) <= 1
    /\ Ended =>
          /\ Returned
          /\ Len(events) = 1 /\ attempt = 1
          /\ result[1] = FALSE /\ result[2] = events[1].output

\* C1 as stated: for every classified command whose executable does not exist
\* on the search path, plain vector or shell line, and max_retries >= 1, the
\* call runs one attempt, never sleeps and returns failure.
C1_Original ==
    (Called /\ max_retries >= 1 /\ (PlainVectorMissing \/ ShellLineMissing))
        => OneFailedAttemptOnly

\* C1 as amended: for every command classified as a plain argument vector
\* whose first token names no file on the search path, and max_retries >= 1,
\* the call runs exactly one attempt, never sleeps and returns failure with
\* that attempt's output.
C1_PlainVectorMissingFailsOnce ==
    (Called /\ max_retries >= 1 /\ PlainVectorMissing) => OneFailedAttemptOnly

C1_Witness ==
    /\ PlainVectorMissing /\ max_retries >= 2
    /\ pc = "NonRetryableFailure" /\ Len(events) = 1
    /\ Contains(result[2], <<"FileNotFoundError">>)

\* an attempt that ran a process to a non-zero exit and whose error text
\* holds no non-retryable marker
GenericFailure(ev) ==
    /\ ev.kind = "attempt" /\ ~ev.success
    /\ ev.started /\ ev.proc.kind = "exit" /\ ev.proc.returncode # 0
    /\ ~HasMarker(ev.output)

\* C2: when every attempt fails with a generic non-zero exit under
\* max_retries = N >= 1, the finished call has run exactly N attempts with
\* exactly N-1 sleeps between them, the sleep after attempt k lasting 2^k
\* seconds, none after the N-th, and returned failure with the N-th
\* attempt's output.
C2_GenericFailuresBackOff ==
    (Returned /\ max_retries >= 1 /\ \A i \in AttemptIdx : GenericFailure(events[i]))
        => /\ Len(events) = 2 * max_retries - 1
           /\ \A k \in 1..max_retries :
                 /\ events[2 * k - 1].kind = "attempt"
                 /\ events[2 * k - 1].n = k
           /\ \A k \in 1..(max_retries - 1) :
                 /\ events[2 * k].kind = "sleep"
                 /\ events[2 * k].secs = 2 ^ k
           /\ pc = "AttemptsExhausted"
           /\ result = <<FALSE, events[Len(events)].output>>

C2_Witness ==
    /\ pc = "AttemptsExhausted" /\ max_retries = 3
    /\ \A i \in AttemptIdx : GenericFailure(events[i])
    /\ [i \in 1..Len(events) |-> events[i].secs] = <<0, 2, 0, 4, 0>>
    /\ events[3].output # events[5].output
    /\ result[2] = events[5].output

\* C3: a failed attempt whose error text holds a non-retryable marker is the
\* last step of the call: nothing (no attempt, no sleep) follows it, and the
\* call has returned failure with that attempt's error text, whatever
\* max_retries is.
C3_MarkerEndsLoop ==
    \A i \in AttemptIdx :
        (~events[i].success /\ HasMarker(events[i].output))
            => /\ i = Len(events)
               /\ pc = "NonRetryableFailure"
               /\ result = <<FALSE, events[i].output>>

C3_Witness ==
    /\ pc = "NonRetryableFailure" /\ max_retries = 3 /\ Len(events) = 1
    /\ events[1].proc.kind = "TimeoutExpired"
    /\ Contains(result[2], <<"timed out">>)

\* C4: a successful attempt is the last step of the call, which has returned
\* (TRUE, that attempt's combined output); and TRUE is returned only when
\* the last attempt's process exited with code zero.
C4_SuccessReturnsAtOnce ==
    /\ \A i \in AttemptIdx :
          events[i].success
              => /\ i = Len(events)
                 /\ pc = "Success"
                 /\ result = <<TRUE, CombinedOutput(events[i].proc)>>
    /\ (Returned /\ result[1])
          => /\ events # <<>>
             /\ events[Len(events)].proc.kind = "exit"
             /\ events[Len(events)].proc.returncode = 0

C4_Witness ==
    /\ pc = "Success" /\ Len(events) = 3 /\ max_retries = 3
    /\ events[3].proc.returncode = 0
    /\ result = <<TRUE, <<"Stdout:", "\n", "frame=1">>>>

\* C5: no exception leaves execute_with_retries, whatever the command: the
\* call ends only by returning a (success, output) pair.
C5_NoExceptionEscapes == pc # "Raised"

\* C6: a call that has ended is in exactly one of Success,
\* NonRetryableFailure and AttemptsExhausted, having run at most max_retries
\* attempts; an attempt is run only while attempts remain.
C6_EndsInATerminalState ==
    /\ Ended => Returned
    /\ Cardinality(AttemptIdx) <= max_retries
    /\ attempt <= max_retries
    /\ pc = "RetryableFailure" => attempt < max_retries

\* What the classification is documented to look for
KeywordStart(cmd) ==
    \E kw \in {<<"f","o","r">>, <<"w","h","i","l","e">>, <<"i","f">>, <<"c","a","s","e">>} :
        /\ StartsWith(Strip(Lower(cmd)), kw)
        /\ Len(Strip(Lower(cmd))) > Len(kw)
        /\ Strip(Lower(cmd))[Len(kw) + 1] \in Whitespace
HasShellOperator(cmd) ==
    \E op \in {<<";">>, <<"&","&">>, <<"|","|">>, <<"|">>, <<">">>, <<"<">>, <<GraveAccent>>} :
        Contains(cmd, op)
\* a "$" with "{" right after it, or with a token of letters and digits
\* right after it (up to the next whitespace or the end)
DollarExpansion(cmd) ==
    \E i \in 1..Len(cmd) :
        /\ cmd[i] = "$"
        /\ i < Len(cmd)
        /\ \/ cmd[i + 1] = "{"
           \/ \E j \in (i + 1)..Len(cmd) :
                 /\ \A k \in (i + 1)..j : cmd[k] \in Letters \cup Digits
                 /\ (j = Len(cmd) \/ cmd[j + 1] \in Whitespace)
\* a %name% token
PercentName(cmd) ==
    \E i, j \in 1..Len(cmd) :
        /\ i + 1 < j /\ cmd[i] = "%" /\ cmd[j] = "%"
        /\ \A k \in (i + 1)..(j - 1) : cmd[k] \in Letters \cup Digits
DocumentedAsShell(cmd, system) ==
    \/ KeywordStart(cmd)
    \/ HasShellOperator(cmd)
    \/ DollarExpansion(cmd)
    \/ (system = "Windows" /\ PercentName(cmd))

\* C12 as stated: every command an attempt has run is classified, as a
\* shell line exactly when it starts with a keyword and whitespace, holds a
\* shell operator, holds a "$" immediately followed by "{" or by an
\* alphanumeric token, or (on Windows) holds a %name% token, and as a plain
\* vector otherwise.
C12_ClassifiedAsDocumented ==
    attempt >= 1 =>
        LooksLikeShellScript(command, platform_system)
            = [exc |-> "", value |-> DocumentedAsShell(command, platform_system)]

EmptyCommandText == <<"Empty command after shlex.split">>

\* the command is empty or holds nothing but whitespace
BlankCommand == \A i \in 1..Len(command) : command[i] \in Whitespace

\* C14: for an empty or whitespace-only command every attempt fails with
\* "Empty command after shlex.split" without starting a process, no attempt
\* ends the loop early, and the finished call has made all max_retries
\* attempts, slept 2^k seconds after the k-th of them except the last, and
\* returned failure with that text.
C14_BlankCommandUsesAllAttempts ==
    (Called /\ BlankCommand) =>
        /\ \A i \in AttemptIdx :
              /\ ~events[i].success /\ ~events[i].started
              /\ events[i].output = EmptyCommandText
        /\ pc \notin {"Success", "NonRetryableFailure", "Raised"}
        /\ Returned =>
              /\ Len(events) = IF max_retries = 0 THEN 0 ELSE 2 * max_retries - 1
              /\ \A k \in 1..max_retries :
                    events[2 * k - 1].kind = "attempt" /\ events[2 * k - 1].n = k
              /\ \A k \in 1..(max_retries - 1) :
                    events[2 * k].kind = "sleep" /\ events[2 * k].secs = 2 ^ k
              /\ max_retries >= 1 => result = <<FALSE, EmptyCommandText>>

\* a whitespace-only command under max_retries = 3 that used all attempts
C14_Witness ==
    /\ command = <<" ">> /\ max_retries = 3 /\ pc = "AttemptsExhausted"
    /\ [i \in 1..Len(events) |-> events[i].secs] = <<0, 2, 0, 4, 0>>
    /\ \A i \in AttemptIdx : ~events[i].started
    /\ result = <<FALSE, EmptyCommandText>>

----------------------------------------------------------------------------
(* CommandGenerator.clean_json_response, in both generators *)

Fence == <<GraveAccent, GraveAccent, GraveAccent>>

\* str.strip(chars)
StripChars(s, chars) ==
    LET keep == {i \in 1..Len(s) : s[i] \notin chars}
    IN  IF keep = {} THEN <<>> ELSE SubSeq(s, Min(keep), Max(keep))

\* str.splitlines(), for the line boundaries "\n", "\r" and "\r\n"
RECURSIVE SplitLines(_)
SplitLines(s) ==
    LET breaks == {i \in 1..Len(s) : s[i] \in {"\n", "\r"}}
    IN  IF s = <<>> THEN <<>>
        ELSE IF breaks = {} THEN <<s>>
        ELSE LET b == Min(breaks)
                 e == IF s[b] = "\r" /\ b < Len(s) /\ s[b + 1] = "\n" THEN b + 1 ELSE b
             IN  <<SubSeq(s, 1, b - 1)>> \o SplitLines(SubSeq(s, e + 1, Len(s)))

\* src/command_generator.py lines 32-37, on the stripped string
LegacyUnfence(s) ==
    IF StartsWith(s, Fence) /\ EndsWith(s, Fence) THEN
        LET lines == SplitLines(s)
        IN  IF Len(lines) >= 3
            THEN Join(<<"\n">>, SubSeq(lines, 2, Len(lines) - 1))
            ELSE StripChars(s, {GraveAccent})
    ELSE s

JsonTag == <<"j", "s", "o", "n">>

\* src/app/command_generator.py lines 202-204, on the stripped string:
\* re.match(r"^\s*```(?:json)?\s*(.*)\s*```\s*$", s, DOTALL | IGNORECASE),
\* then group(1).strip().  The pattern needs an opening and a separate
\* closing fence; the greedy group runs up to the last fence.
AppUnfence(s) ==
    IF Len(s) >= 2 * Len(Fence) /\ StartsWith(s, Fence) /\ EndsWith(s, Fence) THEN
        LET tagged == /\ Len(s) >= Len(Fence) + Len(JsonTag)
                      /\ Lower(SubSeq(s, Len(Fence) + 1, Len(Fence) + Len(JsonTag))) = JsonTag
            from == Len(Fence) + (IF tagged THEN Len(JsonTag) ELSE 0) + 1
        IN  Strip(SubSeq(s, from, Len(s) - Len(Fence)))
    ELSE s

\* a bug: index where rindex is meant, the span ends at the first closing brace
JsonSpanToFirstClose(t) ==
    IF Positions(t, "{") = {} \/ Positions(t, "}") = {}
    THEN [exc |-> "ValueError", value |-> <<>>]
    ELSE [exc |-> "", value |-> SubSeq(t, Min(Positions(t, "{")), Min(Positions(t, "}")))]

\* a bug: the "+ 1" of the end index is missing
JsonSpanExclusiveEnd(t) ==
    IF Positions(t, "{") = {} \/ Positions(t, "}") = {}
    THEN [exc |-> "ValueError", value |-> <<>>]
    ELSE [exc |-> "", value |-> SubSeq(t, Min(Positions(t, "{")), Max(Positions(t, "}")) - 1)]

\* start = s.index("{"); end = s.rindex("}") + 1; s[start:end]
\* index and rindex raise ValueError when the character is absent
JsonSpan(t) ==
    IF Positions(t, "{") = {} \/ Positions(t, "}") = {}
    THEN [exc |-> "ValueError", value |-> <<>>]
    ELSE [exc |-> "", value |-> SubSeq(t, Min(Positions(t, "{")), Max(Positions(t, "}")))]

\* the try/except ValueError around the slice: exc is what leaves the function
SliceOrKeep(t) ==
    LET span == JsonSpan(t)
    IN  IF span.exc = "ValueError" THEN [exc |-> "", value |-> t]
        ELSE [exc |-> span.exc, value |-> span.value]

\* src/command_generator.py lines 30-44
LegacyCleanJsonResponse(s) == SliceOrKeep(LegacyUnfence(Strip(s)))

\* src/app/command_generator.py lines 198-221
AppCleanJsonResponse(s) == SliceOrKeep(AppUnfence(Strip(s)))

CleanJsonResponse(g, s) ==
    IF g = "app" THEN AppCleanJsonResponse(s) ELSE LegacyCleanJsonResponse(s)

Generators == {"app", "legacy"}

MaxBodyLen == 3     \* longest middle part of a raw response
MaxCleanCalls == 2  \* how often the caller cleans the same response again

\* Raw responses: a lead-in, a middle over braces, text and line breaks,
\* and a tail
ResponseLeads == {<<>>, <<"x">>, <<" ">>, Fence, Fence \o <<"\n">>,
                  Fence \o JsonTag, Fence \o <<"J", "S", "O", "N", "\n">>}
ResponseTails == {<<>>, <<"x">>, <<"\n">>, Fence, <<"\n">> \o Fence}
BodyAlphabet == {"{", "}", "x", "\n"}
Responses ==
    {lead \o body \o tail :
        lead \in ResponseLeads, body \in SeqsUpTo(BodyAlphabet, MaxBodyLen),
        tail \in ResponseTails}

\* clean_json_response(response_str), and again on what it returned
Clean ==
    /\ Len(cleaned) < MaxCleanCalls
    /\ \A i \in 1..Len(cleaned) : cleaned[i].exc = ""
    /\ cleaned' = Append(cleaned,
                         CleanJsonResponse(generator,
                                           IF cleaned = <<>> THEN response_str
                                           ELSE cleaned[Len(cleaned)].value))
    /\ UNCHANGED <<generator, response_str>>

\* a generator and a raw response from the model collaborator
CleanInit ==
    /\ generator \in Generators
    /\ response_str \in Responses
    /\ cleaned = <<>>
    /\ max_retries = 0 /\ platform_system = "Linux" /\ exe = "present" /\ ExecIdle
    /\ GenIdle /\ AppIdle

CleanNext == Clean /\ UNCHANGED <<execVars, genVars, appVars>>

CleanSpec == CleanInit /\ [][CleanNext]_vars

----------------------------------------------------------------------------
(* Properties of clean_json_response *)

\* the response after trimming and fence removal
Unfenced(g, s) == IF g = "app" THEN AppUnfence(Strip(s)) ELSE LegacyUnfence(Strip(s))

HasOpen(t) == \E i \in 1..Len(t) : t[i] = "{"
HasClose(t) == \E i \in 1..Len(t) : t[i] = "}"

\* r is t cut from its first "{" to its last "}", both included
IsOuterObject(r, t) ==
    /\ r # <<>> /\ r[1] = "{" /\ r[Len(r)] = "}"
    /\ \E before, after \in 0..Len(t) :
          /\ before + Len(r) + after = Len(t)
          /\ SubSeq(t, before + 1, before + Len(r)) = r
          /\ \A i \in 1..before : t[i] # "{"
          /\ \A i \in (Len(t) - after + 1)..Len(t) : t[i] # "}"

\* some "{" comes before some "}"
OpensBeforeClose(t) == \E i, j \in 1..Len(t) : i < j /\ t[i] = "{" /\ t[j] = "}"

\* C7: clean_json_response never raises; where an opening brace precedes a
\* closing one (prose before, prose after) it returns exactly the text from
\* the first "{" to the last "}" inclusive, of the trimmed and unfenced
\* response and, for a response that is not fenced, of the response itself;
\* where "{" or "}" is absent it returns the trimmed and unfenced response.
C7_CleanExtractsOuterObject ==
    cleaned # <<>> =>
        LET r == cleaned[1].value
            t == Unfenced(generator, response_str)
        IN  /\ cleaned[1].exc = ""
            /\ OpensBeforeClose(t) => IsOuterObject(r, t)
            /\ (OpensBeforeClose(response_str) /\ ~StartsWith(Strip(response_str), Fence))
                  => IsOuterObject(r, response_str)
            /\ (~HasOpen(t) \/ ~HasClose(t)) => r = t

C7_Witness ==
    /\ cleaned # <<>>
    /\ response_str = <<"x", "{", "}", "}", "x">>
    /\ cleaned[1] = [exc |-> "", value |-> <<"{", "}", "}">>]

\* a response that is one JSON-shaped text already: it starts with "{" and
\* ends with "}"
JsonShaped(s) == s # <<>> /\ s[1] = "{" /\ s[Len(s)] = "}"

\* C8: in both generators a JSON-shaped, already clean response is returned
\* as it is, and cleaning a JSON-shaped text that clean_json_response
\* returned gives the same text again: clean(clean(s)) = clean(s).
C8_CleanIdempotent ==
    /\ (JsonShaped(response_str) /\ cleaned # <<>>) =>
           cleaned[1] = [exc |-> "", value |-> response_str]
    /\ (Len(cleaned) >= 2 /\ JsonShaped(cleaned[1].value)) => cleaned[2] = cleaned[1]

C8_Witness ==
    /\ JsonShaped(response_str) /\ Len(response_str) = 3 /\ Len(cleaned) = 2
    /\ cleaned[2].value = response_str

----------------------------------------------------------------------------
(* shlex.quote, shlex.join, os.path.splitext, os.path.basename *)

\* the characters shlex.quote leaves bare: [A-Za-z0-9_@%+=:,./-]
ShlexSafe == Letters \cup Digits \cup {"_", "@", "%", "+", "=", ":", ",", ".", "/", "-"}

\* s.replace("'", "'\"'\"'")
RECURSIVE EscapeSingleQuotes(_)
EscapeSingleQuotes(s) ==
    IF s = <<>> THEN <<>>
    ELSE (IF Head(s) = "'" THEN <<"'", "\"", "'", "\"", "'">> ELSE <<Head(s)>>)
         \o EscapeSingleQuotes(Tail(s))

\* shlex.quote
ShlexQuote(s) ==
    IF s = <<>> THEN <<"'", "'">>
    ELSE IF \A i \in 1..Len(s) : s[i] \in ShlexSafe THEN s
    ELSE <<"'">> \o EscapeSingleQuotes(s) \o <<"'">>

\* shlex.join
ShlexJoin(tokens) == Join(<<" ">>, [i \in 1..Len(tokens) |-> ShlexQuote(tokens[i])])

LastIndex(p, c) == IF Positions(p, c) = {} THEN 0 ELSE Max(Positions(p, c))

\* os.path.splitext (posixpath): <<root, ext>>; leading dots of the last
\* component start no extension
SplitExt(p) ==
    LET sepIndex == LastIndex(p, "/")
        dotIndex == LastIndex(p, ".")
    IN  IF dotIndex > sepIndex /\ \E k \in (sepIndex + 1)..(dotIndex - 1) : p[k] # "."
        THEN <<SubSeq(p, 1, dotIndex - 1), SubSeq(p, dotIndex, Len(p))>>
        ELSE <<p, <<>>>>

\* os.path.basename (posixpath)
Basename(p) == SubSeq(p, LastIndex(p, "/") + 1, Len(p))

----------------------------------------------------------------------------
(* CommandGenerator.replace_placeholder_with_file, update_output_filename *)

\* lines 84-87, 114-117: shlex.split, or str.split when it raises
Tokenize(cmd) ==
    LET sp == ShlexSplit(cmd)
    IN  IF sp.err # <<>> THEN SplitWs(cmd) ELSE sp.tokens

InputDesignator == <<"-", "i">>

\* a bug: the token is compared without lower()
IsInputDesignatorExact(tok) == tok = InputDesignator

\* line 92
IsInputDesignator(tok) == Lower(tok) = InputDesignator

\* lines 88-104: the loop, from index i on
RECURSIVE ReplaceLoop(_, _, _, _, _)
ReplaceLoop(tokens, file, i, found_input, new_tokens) ==
    IF ~(i <= Len(tokens)) THEN new_tokens
    ELSE IF IsInputDesignator(tokens[i]) THEN
        IF ~found_input THEN
            ReplaceLoop(tokens, file, i + 2, TRUE,
                        IF i + 1 <= Len(tokens)
                        THEN new_tokens \o <<tokens[i], file>>
                        ELSE Append(new_tokens, tokens[i]))
        ELSE ReplaceLoop(tokens, file, i + 2, found_input, new_tokens)
    ELSE ReplaceLoop(tokens, file, i + 1, found_input, Append(new_tokens, tokens[i]))

\* lines 82-109
ReplacePlaceholderWithFile(cmd, file) ==
    ShlexJoin(ReplaceLoop(Tokenize(cmd), file, 1, FALSE, <<>>))

ToastedSuffix == <<"_", "t", "o", "a", "s", "t", "e", "d">>

\* line 118: the fewest tokens a command with an output token has
MinOutputTokens == 3

\* a bug: the input's extension is compared without lower()
OutExtCaseSensitive(out_ext, in_ext, ext, images) ==
    IF ext # <<>> THEN ext
    ELSE IF in_ext \in images THEN in_ext
    ELSE out_ext

\* lines 123-127
OutExt(out_ext, in_ext, ext, images) ==
    IF ext # <<>> THEN ext
    ELSE IF Lower(in_ext) \in images THEN in_ext
    ELSE out_ext

\* lines 111-135; ext is <<>> for desired_ext None (or empty)
UpdateOutputFilename(cmd, input_file, ext, images) ==
    LET tokens == Tokenize(cmd)
    IN  IF Len(tokens) < MinOutputTokens THEN cmd
        ELSE LET output_token == tokens[Len(tokens)]
                 out_ext == OutExt(SplitExt(output_token)[2], SplitExt(input_file)[2],
                                   ext, images)
                 base == SplitExt(Basename(input_file))[1]
                 new_output == base \o ToastedSuffix \o out_ext
             IN  ShlexJoin([tokens EXCEPT ![Len(tokens)] = new_output])

MaxPieces == 5      \* most whitespace-separated pieces of a generated command

\* Pieces of generated commands: input designators in both cases, a path
\* with an extension, a quoted argument without one, an unterminated quote
CommandPieces == {InputDesignator, <<"-", "I">>, <<"o", ".", "m">>,
                  <<"'", "b", " ", "c", "'">>, <<"'", "b">>}
GenCommands == {Join(<<" ">>, ps) : ps \in SeqsUpTo(CommandPieces, MaxPieces)}

\* Paths of input files: a video, an image in a dotted directory with an
\* upper-case extension, a dot file, a name with a space
InputFiles == {<<"v", ".", "m">>, <<"d", ".", "d", "/", "a", ".", "P">>,
               <<".", "h">>, <<"b", " ", "c", ".", "p">>}
DesiredExts == {<<>>, <<".", "g">>}

\* file_manager.IMAGE_EXTENSIONS, which this repository's sources do not hold
ImageExtensionSets == {{<<".", "p">>}}

\* a call replace_placeholder_with_file(gen_command, file)
ReplacePlaceholder ==
    /\ gen_out = <<>>
    /\ \E file \in InputFiles :
          /\ actual_file' = file
          /\ gen_out' = <<"replace_placeholder_with_file",
                          ReplacePlaceholderWithFile(gen_command, file)>>
    /\ desired_ext' = <<>>
    /\ UNCHANGED <<gen_command, IMAGE_EXTENSIONS>>

\* a call update_output_filename(gen_command, file, ext)
UpdateOutput ==
    /\ gen_out = <<>>
    /\ \E file \in InputFiles, ext \in DesiredExts :
          /\ actual_file' = file
          /\ desired_ext' = ext
          /\ gen_out' = <<"update_output_filename",
                          UpdateOutputFilename(gen_command, file, ext, IMAGE_EXTENSIONS)>>
    /\ UNCHANGED <<gen_command, IMAGE_EXTENSIONS>>

\* the command the model returned, before either call
GenInit ==
    /\ IMAGE_EXTENSIONS \in ImageExtensionSets
    /\ gen_command \in GenCommands
    /\ actual_file = <<>> /\ desired_ext = <<>> /\ gen_out = <<>>
    /\ max_retries = 0 /\ platform_system = "Linux" /\ exe = "present" /\ ExecIdle
    /\ CleanIdle /\ AppIdle

GenNext ==
    \/ ReplacePlaceholder /\ UNCHANGED <<execVars, cleanVars, appVars>>
    \/ UpdateOutput /\ UNCHANGED <<execVars, cleanVars, appVars>>

GenSpec == GenInit /\ [][GenNext]_vars

----------------------------------------------------------------------------
(* Properties of replace_placeholder_with_file and update_output_filename *)

Replaced == gen_out # <<>> /\ gen_out[1] = "replace_placeholder_with_file"
Updated == gen_out # <<>> /\ gen_out[1] = "update_output_filename"

\* the token stream of the command handed in, and of the command returned
InTokens == Tokenize(gen_command)
OutTokens == ShlexSplit(gen_out[2]).tokens

\* the tokens of toks at the indices in S, in their original order
TokensAt(toks, S) ==
    LET F[k \in 0..Len(toks)] ==
            IF k = 0 THEN <<>>
            ELSE IF k \in S THEN Append(F[k - 1], toks[k]) ELSE F[k - 1]
    IN  F[Len(toks)]

\* the indices from i on that hold an additional designator or the token
\* following one, reading left to right
RECURSIVE Additional(_, _, _)
Additional(toks, des, i) ==
    IF i > Len(toks) THEN {}
    ELSE IF toks[i] \in des THEN ({i, i + 1} \cap (1..Len(toks))) \cup Additional(toks, des, i + 2)
    ELSE Additional(toks, des, i + 1)

\* What the replacement is to produce for designators des: the tokens up to
\* the first designator, the file, then the tokens that are neither an
\* additional designator nor the token following one
ExpectedReplacement(toks, des, file) ==
    LET p == Min({i \in 1..Len(toks) : toks[i] \in des})
    IN  SubSeq(toks, 1, p) \o <<file>>
        \o TokensAt(toks, ((p + 2)..Len(toks)) \ Additional(toks, des, p + 2))

ExactDesignators == {<<"-", "i">>}
AnyCaseDesignators == {<<"-", "i">>, <<"-", "I">>}

\* C9 as stated: a command with one or more -i tokens comes back with exactly
\* one -i, immediately followed by the file; every additional -i and the
\* token following it are gone and the other tokens keep their order.
C9_Original ==
    Replaced =>
        LET toks == InTokens
            out == OutTokens
        IN  (\E i \in 1..Len(toks) : toks[i] \in ExactDesignators) =>
                /\ Cardinality({j \in 1..Len(out) : out[j] \in ExactDesignators}) = 1
                /\ \A j \in 1..Len(out) :
                      out[j] \in ExactDesignators =>
                          j < Len(out) /\ out[j + 1] = actual_file
                /\ out = ExpectedReplacement(toks, ExactDesignators, actual_file)

\* C9: a designator is -i in either case.  When the first designator of the
\* command is followed by a token, the command comes back as the tokens up to
\* and including that designator (as written), the file in place of the token
\* that followed it, and then the remaining tokens in their order without any
\* additional designator and without the token following each; no designator
\* is left after the file.  When the first designator is the last token, the
\* tokens come back as they were and the file is not inserted.
C9_FirstDesignatorTakesFile ==
    Replaced =>
        LET toks == InTokens
            out == OutTokens
            des == {i \in 1..Len(toks) : toks[i] \in AnyCaseDesignators}
        IN  des # {} =>
                IF Min(des) = Len(toks) THEN out = toks
                ELSE /\ out = ExpectedReplacement(toks, AnyCaseDesignators, actual_file)
                     /\ out[Min(des)] = toks[Min(des)]
                     /\ out[Min(des) + 1] = actual_file
                     /\ \A j \in (Min(des) + 2)..Len(out) : out[j] \notin AnyCaseDesignators

\* a command with an additional designator in the other case, whose pair is
\* removed while a token after the pair is kept
C9_Witness ==
    /\ Replaced
    /\ LET toks == InTokens
           out == OutTokens
           des == {i \in 1..Len(toks) : toks[i] \in AnyCaseDesignators}
       IN  /\ des # {}
           /\ \E d \in des :
                 /\ d > Min(des) + 1 /\ d + 2 = Len(toks)
                 /\ toks[d] # toks[Min(des)]
                 /\ toks[d + 2] \notin AnyCaseDesignators
                 /\ Len(out) = Len(toks) - 2
                 /\ out[Min(des) + 1] = actual_file
                 /\ out[Len(out)] = toks[d + 2]

\* C10: update_output_filename returns a command of fewer than three tokens
\* as it was; otherwise every token but the last is preserved in order and
\* the last becomes the input's base name without extension, "_toasted", and
\* the desired extension if one was given, else the input's extension when
\* the input is a still image, else the extension of the old last token.
C10_OnlyLastTokenChanges ==
    Updated =>
        LET toks == InTokens
            out == OutTokens
            n == Len(toks)
        IN  IF n < 3 THEN gen_out[2] = gen_command
            ELSE LET in_ext == SplitExt(actual_file)[2]
                     ext == IF desired_ext # <<>> THEN desired_ext
                            ELSE IF Lower(in_ext) \in IMAGE_EXTENSIONS THEN in_ext
                            ELSE SplitExt(toks[n])[2]
                 IN  /\ Len(out) = n
                     /\ SubSeq(out, 1, n - 1) = SubSeq(toks, 1, n - 1)
                     /\ out[n] = SplitExt(Basename(actual_file))[1]
                                   \o ToastedSuffix \o ext

\* a still image with an upper-case extension, no desired extension, and an
\* old output token with another extension
C10_Witness ==
    /\ Updated
    /\ desired_ext = <<>>
    /\ LET toks == InTokens
           out == OutTokens
           in_ext == SplitExt(actual_file)[2]
       IN  /\ Len(toks) >= 3
           /\ in_ext # Lower(in_ext)
           /\ Lower(in_ext) \in IMAGE_EXTENSIONS
           /\ SplitExt(toks[Len(toks)])[2] \notin {<<>>, in_ext}
           /\ EndsWith(out[Len(out)], in_ext)

----------------------------------------------------------------------------
(* CommandGenerator of src/app/command_generator.py: _format_file_context *)

\* dict.get(key, default): a dict is a function on the keys it holds
Get(d, key, default) == IF key \in DOMAIN d THEN d[key] ELSE default

\* s.split(sep) for a one-character sep
RECURSIVE SplitOn(_, _)
SplitOn(s, sep) ==
    IF Positions(s, sep) = {} THEN <<s>>
    ELSE LET b == Min(Positions(s, sep))
         IN  <<SubSeq(s, 1, b - 1)>> \o SplitOn(SubSeq(s, b + 1, Len(s)), sep)

NonEmpty(x) == x # <<>>

\* os.getcwd() of the process
GetCwd == <<"/", "w">>

\* os.path.abspath, for the paths the model hands in: absolute ones, "." and ""
AbsPath(p) == IF p = <<>> \/ p = <<".">> THEN GetCwd ELSE p

\* the components of an absolute path: [x for x in p.split('/') if x]
Components(p) == SelectSeq(SplitOn(p, "/"), NonEmpty)

\* len(os.path.commonprefix([a, b])) of two component lists
CommonPrefixLen(a, b) ==
    Max({i \in 0..Min({Len(a), Len(b)}) : SubSeq(a, 1, i) = SubSeq(b, 1, i)})

\* os.path.relpath(path, start) (posixpath); ValueError for an empty path
RelPath(path, start) ==
    IF path = <<>> THEN [exc |-> "ValueError", value |-> <<>>]
    ELSE LET start_list == Components(AbsPath(start))
             path_list == Components(AbsPath(path))
             i == CommonPrefixLen(start_list, path_list)
             rel_list == [k \in 1..(Len(start_list) - i) |-> <<".", ".">>]
                         \o SubSeq(path_list, i + 1, Len(path_list))
         IN  [exc |-> "",
              value |-> IF rel_list = <<>> THEN <<".">> ELSE Join(<<"/">>, rel_list)]

\* lines 70-81: the path of a detected file as the prompt shows it
PathForPrompt(f_abs, cwd) ==
    LET rel_path == RelPath(f_abs, cwd)
    IN  IF rel_path.exc = "ValueError" THEN f_abs
        ELSE IF /\ Len(rel_path.value) < Len(f_abs)
                /\ ~Contains(SubSeq(rel_path.value, 4, Len(rel_path.value)),
                             <<".", ".", "/">>)
             THEN rel_path.value
             ELSE f_abs

\* lines 50-100
FormatFileContext(ctx) ==
    LET explicit_file == Get(ctx, "explicit_input_file", <<>>)
        detected_files == Get(ctx, "detected_files_in_directory", <<>>)
        cwd == Get(ctx, "current_directory", <<".">>)
        quoted == [i \in 1..Len(detected_files) |->
                      <<"'">> \o PathForPrompt(detected_files[i], cwd) \o <<"'">>]
        files_list_str == Join(<<",", " ">>, quoted)
        summary_msg == Get(ctx, "file_context_message", <<>>)
        explicit_lines ==
            IF explicit_file # <<>>
            THEN << <<"- Explicit input file provided: '">> \o explicit_file
                    \o <<"' (Use this exact path)">> >>
            ELSE <<>>
        detected_lines ==
            IF detected_files # <<>>
            THEN << <<"- Media files found in directory '">> \o cwd \o <<"': ">>
                    \o files_list_str,
                    <<"- Note: In the generated command, use full absolute paths for these files where necessary (e.g., '">>
                    \o detected_files[1] \o <<"' ...).">> >>
            ELSE <<>>
        summary_lines ==
            IF summary_msg # <<>> /\ explicit_file = <<>> /\ detected_files = <<>>
            THEN << <<"- Additional context: ">> \o summary_msg >>
            ELSE IF explicit_file = <<>> /\ detected_files = <<>>
            THEN << <<"- No specific input file provided or common media files detected in the directory '">>
                    \o cwd \o <<"'.">> >>
            ELSE <<>>
        file_context_lines ==
            << <<"\n", "FILE CONTEXT:">> >> \o explicit_lines \o detected_lines
            \o summary_lines
    IN  IF Len(file_context_lines) > 1 THEN Join(<<"\n">>, file_context_lines) ELSE <<>>

----------------------------------------------------------------------------
(* _prepare_llm_messages, _call_llm_api, generate_command *)

\* A template as str.format reads it, piece by piece:
\*   "lit"         literal text
\*   "field"       a replacement field with a name, {name}
\*   "positional"  a replacement field without a name, {} or {0}
\*   "stray"       a single brace that opens or closes no field
Lit(text) == [kind |-> "lit", text |-> text]
Field(name) == [kind |-> "field", text |-> <<name>>]
Positional == [kind |-> "positional", text |-> <<>>]
Stray == [kind |-> "stray", text |-> <<"}">>]

\* lines 123-129: the keyword arguments of format
FormatKwargs(ctx) ==
    [name \in {"os_info", "os_type", "shell", "ffmpeg_version", "ffmpeg_executable_path",
               "current_directory", "file_context"} |->
        CASE name \in {"os_info", "os_type", "shell", "ffmpeg_version"} ->
                 Get(ctx, name, <<"Unknown">>)
          [] name = "ffmpeg_executable_path" -> Get(ctx, name, <<"ffmpeg">>)
          [] name = "current_directory" -> Get(ctx, name, <<".">>)
          [] name = "file_context" -> FormatFileContext(ctx)]

\* a bug: a field without an argument is filled with a default, as dict.get does
FormatPieceLenient(piece, kwargs) ==
    IF piece.kind = "lit" THEN [exc |-> "", value |-> piece.text]
    ELSE IF piece.kind = "field" THEN
        [exc |-> "", value |-> Get(kwargs, piece.text[1], <<"Unknown">>)]
    ELSE IF piece.kind = "positional" THEN
        [exc |-> "IndexError",
         value |-> <<"Replacement index 0 out of range for positional args tuple">>]
    ELSE [exc |-> "ValueError",
          value |-> <<"Single '}' encountered in format string">>]

\* str.format on one piece: exc is the exception it raises, value the text
\* it yields or the exception's str()
FormatPiece(piece, kwargs) ==
    IF piece.kind = "lit" THEN [exc |-> "", value |-> piece.text]
    ELSE IF piece.kind = "field" THEN
        IF piece.text[1] \in DOMAIN kwargs
        THEN [exc |-> "", value |-> kwargs[piece.text[1]]]
        ELSE [exc |-> "KeyError", value |-> <<"'">> \o piece.text \o <<"'">>]
    ELSE IF piece.kind = "positional" THEN
        [exc |-> "IndexError",
         value |-> <<"Replacement index 0 out of range for positional args tuple">>]
    ELSE [exc |-> "ValueError",
          value |-> <<"Single '}' encountered in format string">>]

\* template.format(**kwargs): the pieces are formatted from left to right and
\* the first exception ends the call
RECURSIVE FormatTemplate(_, _)
FormatTemplate(template, kwargs) ==
    IF template = <<>> THEN [exc |-> "", value |-> <<>>]
    ELSE LET first == FormatPiece(Head(template), kwargs)
         IN  IF first.exc # "" THEN first
             ELSE LET rest == FormatTemplate(Tail(template), kwargs)
                  IN  IF rest.exc # "" THEN rest
                      ELSE [exc |-> "", value |-> first.value \o rest.value]

MissingKeyText == <<"System context dictionary is missing required key: ">>

\* The content of a turn: kind "str" with its text, "none" for None, and
\* "missing" for a turn without the key
Str(text) == [kind |-> "str", text |-> text]
Turn(role, content) == [role |-> role, content |-> content]

\* msg.get("content"), taken as a condition
HasContent(msg) == msg.content.kind = "str" /\ msg.content.text # <<>>

\* a bug: the filter is left out
ValidHistoryUnfiltered(history) == history

\* line 138
ValidHistory(history) == SelectSeq(history, HasContent)

\* lines 102-141: exc is the exception that leaves the function, value its
\* str(), messages the list returned
PrepareLlmMessages(template, history, ctx) ==
    LET formatted == FormatTemplate(template, FormatKwargs(ctx))
    IN  IF formatted.exc = "KeyError"
        THEN [exc |-> "ValueError", value |-> MissingKeyText \o formatted.value,
              messages |-> <<>>]
        ELSE IF formatted.exc # ""
        THEN [exc |-> formatted.exc, value |-> formatted.value, messages |-> <<>>]
        ELSE [exc |-> "", value |-> <<>>,
              messages |-> <<Turn("system", Str(formatted.value))>> \o ValidHistory(history)]

\* What openai.chat.completions.create can do: answer with a content, with an
\* empty one or with None, or raise one of the openai errors
ApiOutcomes ==
    {[kind |-> "content", content |-> Str(<<"{", "}">>)],
     [kind |-> "content", content |-> Str(<<>>)],
     [kind |-> "content", content |-> [kind |-> "none", text |-> <<>>]],
     [kind |-> "raise", content |-> Str(<<"APIConnectionError">>)]}

\* line 172: json.dumps of the fallback answer
EmptyContentJson == <<"{\"explanation\": [\"LLM returned empty content.\"], \"command\": \"\"}">>

\* lines 166-180: what _call_llm_api returns or raises after the call
CallLlmApi(out) ==
    IF out.kind = "raise" THEN [exc |-> out.content.text[1], value |-> <<>>]
    ELSE IF out.content.kind = "str" /\ out.content.text # <<>>
    THEN [exc |-> "", value |-> out.content.text]
    ELSE [exc |-> "", value |-> EmptyContentJson]

MaxHistory == 3     \* most turns of a conversation history

\* Templates: one that names every argument of format, one that also names a
\* field format is not given, one that names a key of the context that format
\* is not given, an empty one, one with a positional field, and two with a
\* stray brace after and before an unknown field
PromptTemplates ==
    {<<Lit(<<"You are an FFmpeg command generator on ">>), Field("os_info"),
       Field("os_type"), Field("shell"), Field("ffmpeg_version"),
       Field("ffmpeg_executable_path"), Field("current_directory"),
       Field("file_context")>>,
     <<Lit(<<"OS: ">>), Field("os_info"), Lit(<<" for ">>), Field("user_name")>>,
     <<Field("explicit_input_file")>>,
     <<>>,
     <<Lit(<<"OS: ">>), Positional>>,
     <<Field("user_name"), Stray>>,
     <<Stray, Field("user_name")>>}

\* Every key a system context of the model can hold, with its value
FullContext ==
    [os_info |-> <<"Linux">>, os_type |-> <<"posix">>, shell |-> <<"bash">>,
     ffmpeg_version |-> <<"6.0">>, ffmpeg_executable_path |-> <<"/usr/bin/ffmpeg">>,
     current_directory |-> <<"/", "w", "w", "/", "d">>,
     explicit_input_file |-> <<"/", "w", "w", "/", "a", ".", "m">>,
     detected_files_in_directory |->
         << <<"/", "w", "w", "/", "d", "/", "c", ".", "m">>,
            <<"/", "w", "w", "/", "a", ".", "m">>,
            <<"/", "v", "/", "b", ".", "m">>,
            <<"/", "w", "/", "e">>,
            <<>> >>,
     file_context_message |-> <<"No media files found.">>,
     user_name |-> <<"bob">>]

ContextKeySets ==
    {{},
     {"os_info", "os_type", "shell", "ffmpeg_version", "ffmpeg_executable_path",
      "current_directory"},
     {"os_info", "current_directory", "explicit_input_file"},
     {"current_directory", "detected_files_in_directory"},
     {"detected_files_in_directory", "file_context_message"},
     {"file_context_message"},
     {"os_info", "user_name", "explicit_input_file"}}

SystemContexts == {[k \in keys |-> FullContext[k]] : keys \in ContextKeySets}

\* Turns of a history: with a text, with an empty text, with None and
\* without the key
HistoryTurns ==
    {Turn("user", Str(<<"make a gif">>)),
     Turn("assistant", Str(<<>>)),
     Turn("user", [kind |-> "none", text |-> <<>>]),
     Turn("assistant", [kind |-> "missing", text |-> <<>>])}

Histories == SeqsUpTo(HistoryTurns, MaxHistory)

\* line 246: messages = self._prepare_llm_messages(...)
PrepareMessages ==
    /\ app_pc = "Idle"
    /\ LET prep == PrepareLlmMessages(system_prompt_template, conversation_history,
                                      system_context)
       IN  IF prep.exc # "" THEN
               /\ app_pc' = "Raised"
               /\ raw_llm_response' = [exc |-> prep.exc, value |-> prep.value]
               /\ UNCHANGED messages
           ELSE
               /\ app_pc' = "Prepared"
               /\ messages' = prep.messages
               /\ UNCHANGED raw_llm_response
    /\ UNCHANGED <<system_prompt_template, system_context, conversation_history,
                   request, network_calls>>

\* line 251: raw_llm_response = self._call_llm_api(messages)
CallApi ==
    /\ app_pc = "Prepared"
    /\ request' = messages
    /\ network_calls' = network_calls + 1
    /\ \E out \in ApiOutcomes :
          /\ raw_llm_response' = CallLlmApi(out)
          /\ app_pc' = IF CallLlmApi(out).exc # "" THEN "Raised" ELSE "Returned"
    /\ UNCHANGED <<system_prompt_template, system_context, conversation_history,
                   messages>>

\* a CommandGenerator whose template was loaded, and the arguments of one
\* generate_command call
AppInit ==
    /\ max_retries = 0 /\ platform_system = "Linux" /\ exe = "present" /\ ExecIdle
    /\ CleanIdle /\ GenIdle
    /\ app_pc = "Idle" /\ messages = <<>> /\ request = <<>> /\ network_calls = 0
    /\ raw_llm_response = [exc |-> "", value |-> <<>>]
    /\ system_prompt_template \in PromptTemplates
    /\ system_context \in SystemContexts
    /\ conversation_history \in Histories

AppNext ==
    \/ PrepareMessages /\ UNCHANGED <<execVars, cleanVars, genVars>>
    \/ CallApi /\ UNCHANGED <<execVars, cleanVars, genVars>>

AppSpec == AppInit /\ [][AppNext]_vars

----------------------------------------------------------------------------
(* Properties of generate_command *)

\* the call ended in the configuration error of line 134
ConfigurationError ==
    /\ app_pc = "Raised"
    /\ raw_llm_response.exc = "ValueError"
    /\ StartsWith(raw_llm_response.value, MissingKeyText)

\* the names format is given arguments for
FormatArguments == {"os_info", "os_type", "shell", "ffmpeg_version",
                    "ffmpeg_executable_path", "current_directory", "file_context"}

\* the names of the template's fields that format has no argument for
UnfilledFields ==
    {system_prompt_template[i].text[1] : i \in
        {j \in 1..Len(system_prompt_template) :
            /\ system_prompt_template[j].kind = "field"
            /\ system_prompt_template[j].text[1] \notin FormatArguments}}

NonEmptyContent(turn) == turn.content.kind = "str" /\ Len(turn.content.text) > 0

\* the messages handed to the collaborator are the system turn and then the
\* history turns with a non-empty content, in their order
RequestIsSystemTurnAndFilteredHistory ==
    network_calls > 0 =>
        /\ request # <<>>
        /\ request[1].role = "system"
        /\ request[1].content =
              Str(FormatTemplate(system_prompt_template, FormatKwargs(system_context)).value)
        /\ Tail(request) =
              TokensAt(conversation_history,
                       {i \in 1..Len(conversation_history) :
                           NonEmptyContent(conversation_history[i])})
        /\ \A j \in 2..Len(request) : NonEmptyContent(request[j])

\* C13: the message list handed to the model collaborator has the formatted
\* system turn first, followed by exactly the history turns whose content is
\* non-empty, in their original order; no history turn with an empty content
\* is transmitted, and no step of the call changes the caller's history list.
C13_RequestIsFilteredHistory ==
    /\ []RequestIsSystemTurnAndFilteredHistory
    /\ [][conversation_history' = conversation_history]_vars

\* a request made from a history whose middle turn has an empty content
C13_Witness ==
    /\ network_calls > 0
    /\ Len(conversation_history) = 3
    /\ NonEmptyContent(conversation_history[1])
    /\ ~NonEmptyContent(conversation_history[2])
    /\ NonEmptyContent(conversation_history[3])
    /\ Len(request) = 3
    /\ request[3] = conversation_history[3]

====
